---- MODULE Spec2Model ----
(***************************************************************************)
(* Model of two components of MapProxy:                                    *)
(*   - MapnikSource (mapproxy/source/mapnik.py): get_map, render,          *)
(*     render_mapfile and _render_mapfile, called by concurrent request    *)
(*     handlers, with an optional lock around the backend;                 *)
(*   - KMLServer (mapproxy/service/kml.py): map, kml, authorize_tile_layer,*)
(*     layer, _get_subtiles, _tile_bbox, _tile_wgs_bbox, _tile_bbox_to_wgs.*)
(***************************************************************************)
EXTENDS Integers, Sequences, FiniteSets, TLC

\* ------------------------------------------------------------------------
\* Bounds of the model
\* ------------------------------------------------------------------------
\* number of concurrent request handlers calling MapnikSource.get_map
NThreads == 2
\* tile requests carry x and y in -1..MaxXY and z in 0..MaxZ
MaxXY == 2
MaxZ == 2
\* number of KML documents of a layer held at a time
MaxDocs == 2

Threads == 1..NThreads

\* messages a backend RuntimeError may carry (ex.args[0])
Messages == {"font not found", "could not load map"}

\* len(data) of the images the backend returns, and the values
\* time.time()-start_time takes (clock units)
DataSizes == {2}
Durations == {1}

None == "None"

VARIABLES
    \* ---- MapnikSource -------------------------------------------------
    hasLock,        \* self.lock is configured (mapnik.py:49)
    hasResRange,    \* self.res_range is configured (mapnik.py:48)
    hasCoverage,    \* self.coverage is configured (mapnik.py:47)
    lockHolder,     \* 0 when the lock is free, else the thread inside `with self.lock()`
    pc,             \* position of each request handler in get_map/render
    query,          \* the query of each handler's current get_map call
    worker,         \* state of the offloaded _render_mapfile of each call
    pending,        \* what _render_mapfile produced: data or RuntimeError
    log,            \* log_request records of each call
    result,         \* what get_map gave its caller
    active,         \* number of _render_mapfile invocations in progress
    calls,          \* backend invocations of each handler's current call
    \* ---- KMLServer ----------------------------------------------------
    kpc,            \* "idle", or "responded" when a request has been handled
    kreq,           \* the request handled last
    kresp,          \* its response
    dlayer,         \* the layer whose KML documents are followed
    docs            \* KML documents made: a tile and the subtiles it links

renderVars == <<hasLock, hasResRange, hasCoverage, lockHolder, pc, query,
                worker, pending, log, result, active, calls>>

kmlVars == <<kpc, kreq, kresp>>
docVars == <<dlayer, docs>>

vars == <<renderVars, kmlVars, docVars>>

\* what no step of a get_map call changes: the configuration of the source
\* and the state of the KML server
fixedVars == <<hasLock, hasResRange, hasCoverage, kmlVars, docVars>>

\* ------------------------------------------------------------------------
\* MapnikSource
\* ------------------------------------------------------------------------
Queries == [in_res_range : BOOLEAN, in_coverage : BOOLEAN]
NoQuery == [in_res_range |-> TRUE, in_coverage |-> TRUE]

NoPending == [kind |-> None, msg |-> None, size |-> 0]
DataOf(n) == [kind |-> "data", msg |-> None, size |-> n]
RuntimeError(m) == [kind |-> "RuntimeError", msg |-> m, size |-> 0]

NoResult == [kind |-> None, msg |-> None, size |-> 0]
BlankImage == [kind |-> "BlankImage", msg |-> None, size |-> 0]
SourceError(m) == [kind |-> "SourceError", msg |-> m, size |-> 0]
ImageSource(n) == [kind |-> "ImageSource", msg |-> None, size |-> n]

RenderInit ==
    /\ hasLock \in BOOLEAN
    /\ hasResRange \in BOOLEAN
    /\ hasCoverage \in BOOLEAN
    /\ lockHolder = 0
    /\ pc = [t \in Threads |-> "idle"]
    /\ query = [t \in Threads |-> NoQuery]
    /\ worker = [t \in Threads |-> "none"]
    /\ pending = [t \in Threads |-> NoPending]
    /\ log = [t \in Threads |-> <<>>]
    /\ result = [t \in Threads |-> NoResult]
    /\ active = 0
    /\ calls = [t \in Threads |-> 0]

\* get_map without the test of the resolution range
GetMapNoResRange(t) ==
    /\ pc[t] = "idle"
    /\ \E q \in Queries :
        /\ query' = [query EXCEPT ![t] = q]
        /\ IF hasCoverage /\ ~q.in_coverage
              THEN /\ result' = [result EXCEPT ![t] = BlankImage]
                   /\ pc' = [pc EXCEPT ![t] = "done"]
              ELSE /\ result' = result
                   /\ pc' = [pc EXCEPT ![t] = "render"]
    /\ UNCHANGED <<fixedVars, lockHolder, worker,
                   pending, log, active, calls>>

\* get_map, lines 55-60: the applicability checks
GetMap(t) ==
    /\ pc[t] = "idle"
    /\ \E q \in Queries :
        /\ query' = [query EXCEPT ![t] = q]
        /\ IF hasResRange /\ ~q.in_res_range
              THEN /\ result' = [result EXCEPT ![t] = BlankImage]
                   /\ pc' = [pc EXCEPT ![t] = "done"]
              ELSE IF hasCoverage /\ ~q.in_coverage
                      THEN /\ result' = [result EXCEPT ![t] = BlankImage]
                           /\ pc' = [pc EXCEPT ![t] = "done"]
                      ELSE /\ result' = result
                           /\ pc' = [pc EXCEPT ![t] = "render"]
    /\ UNCHANGED <<fixedVars, lockHolder, worker,
                   pending, log, active, calls>>

\* render without the lock, whatever the configuration
RenderEnterUnlocked(t) ==
    /\ pc[t] = "render"
    /\ pc' = [pc EXCEPT ![t] = "render_mapfile"]
    /\ UNCHANGED <<fixedVars, lockHolder, query,
                   worker, pending, log, result, active, calls>>

\* render, lines 73-84: `with self.lock():` blocks until the lock is free
\* (the level put into the mapfile name at lines 75-78 changes nothing of
\* the state followed here)
RenderEnter(t) ==
    /\ pc[t] = "render"
    /\ IF hasLock
          THEN /\ lockHolder = 0
               /\ lockHolder' = t
          ELSE lockHolder' = lockHolder
    /\ pc' = [pc EXCEPT ![t] = "render_mapfile"]
    /\ UNCHANGED <<fixedVars, query, worker, pending,
                   log, result, active, calls>>

\* render_mapfile, lines 86-87: hand _render_mapfile to run_non_blocking
RenderMapfile(t) ==
    /\ pc[t] = "render_mapfile"
    /\ worker[t] = "none"
    /\ worker' = [worker EXCEPT ![t] = "submitted"]
    /\ pc' = [pc EXCEPT ![t] = "waiting"]
    /\ UNCHANGED <<fixedVars, lockHolder, query,
                   pending, log, result, active, calls>>

\* _render_mapfile, lines 89-91: the backend invocation starts
BackendEnter(t) ==
    /\ worker[t] = "submitted"
    /\ worker' = [worker EXCEPT ![t] = "running"]
    /\ active' = active + 1
    /\ calls' = [calls EXCEPT ![t] = @ + 1]
    /\ UNCHANGED <<fixedVars, lockHolder, pc, query,
                   pending, log, result>>

\* _render_mapfile, lines 92-100: mapnik renders, or raises a RuntimeError
BackendBody(t) ==
    /\ worker[t] = "running"
    /\ \E out \in {DataOf(n) : n \in DataSizes} \cup {RuntimeError(m) : m \in Messages} :
        pending' = [pending EXCEPT ![t] = out]
    /\ worker' = [worker EXCEPT ![t] = "finally"]
    /\ UNCHANGED <<fixedVars, lockHolder, pc, query,
                   log, result, active, calls>>

\* the log_request call of the finally block, lines 102-106
LogRecord(p, d) ==
    [status   |-> IF p.kind = "data" THEN "200" ELSE "500",
     size     |-> IF p.kind = "data" THEN p.size ELSE None,
     duration |-> d]

\* the request logged after the try block: a fault leaves before it
BackendLogOnReturn(t) ==
    /\ worker[t] = "finally"
    /\ \E d \in Durations :
        log' = [log EXCEPT ![t] =
                  IF pending[t].kind = "data"
                     THEN Append(@, LogRecord(pending[t], d))
                     ELSE @]
    /\ worker' = [worker EXCEPT ![t] = "finished"]
    /\ active' = active - 1
    /\ UNCHANGED <<fixedVars, lockHolder, pc, query,
                   pending, result, calls>>

\* _render_mapfile, lines 101-109: log, then return or let the fault go on
BackendFinally(t) ==
    /\ worker[t] = "finally"
    /\ \E d \in Durations :
        log' = [log EXCEPT ![t] = Append(@, LogRecord(pending[t], d))]
    /\ worker' = [worker EXCEPT ![t] = "finished"]
    /\ active' = active - 1
    /\ UNCHANGED <<fixedVars, lockHolder, pc, query,
                   pending, result, calls>>

\* run_non_blocking gives its caller the result when the task has ended
RunNonBlockingDone(t) == worker[t] = "finished"

\* fire and forget: give the caller control as soon as the task is handed over
RenderMapfileReturnEarly(t) ==
    /\ pc[t] = "waiting"
    /\ pc' = [pc EXCEPT ![t] = "render_exit"]
    /\ UNCHANGED <<fixedVars, lockHolder, query,
                   worker, pending, log, result, active, calls>>

\* render_mapfile, line 87: `return run_non_blocking(...)`
RenderMapfileReturn(t) ==
    /\ pc[t] = "waiting"
    /\ RunNonBlockingDone(t)
    /\ pc' = [pc EXCEPT ![t] = "render_exit"]
    /\ UNCHANGED <<fixedVars, lockHolder, query,
                   worker, pending, log, result, active, calls>>

\* leave the with block releasing the lock only on a normal return
RenderExitKeepOnFault(t) ==
    /\ pc[t] = "render_exit"
    /\ lockHolder' = IF hasLock /\ pending[t].kind = "data" THEN 0 ELSE lockHolder
    /\ pc' = [pc EXCEPT ![t] = "get_map_return"]
    /\ UNCHANGED <<fixedVars, query, worker, pending,
                   log, result, active, calls>>

\* render, lines 80-84: leaving the with block releases the lock, on a
\* return and on an exception alike
RenderExit(t) ==
    /\ pc[t] = "render_exit"
    /\ lockHolder' = IF hasLock THEN 0 ELSE lockHolder
    /\ pc' = [pc EXCEPT ![t] = "get_map_return"]
    /\ UNCHANGED <<fixedVars, query, worker, pending,
                   log, result, active, calls>>

\* get_map, lines 62-68: a RuntimeError becomes SourceError(ex.args[0]);
\* the backend raises no HTTPClientError (lines 70-71)
GetMapReturn(t) ==
    /\ pc[t] = "get_map_return"
    /\ result' = [result EXCEPT ![t] =
                    IF pending[t].kind = "RuntimeError"
                       THEN SourceError(pending[t].msg)
                       ELSE ImageSource(pending[t].size)]
    /\ pc' = [pc EXCEPT ![t] = "done"]
    /\ UNCHANGED <<fixedVars, lockHolder, query,
                   worker, pending, log, active, calls>>

\* the handler serves its next request
NextCall(t) ==
    /\ pc[t] = "done"
    /\ pc' = [pc EXCEPT ![t] = "idle"]
    /\ query' = [query EXCEPT ![t] = NoQuery]
    /\ worker' = [worker EXCEPT ![t] = "none"]
    /\ pending' = [pending EXCEPT ![t] = NoPending]
    /\ log' = [log EXCEPT ![t] = <<>>]
    /\ result' = [result EXCEPT ![t] = NoResult]
    /\ calls' = [calls EXCEPT ![t] = 0]
    /\ UNCHANGED <<fixedVars, lockHolder, active>>

ThreadStep(t) ==
    \/ GetMap(t)
    \/ RenderEnter(t)
    \/ RenderMapfile(t)
    \/ BackendEnter(t)
    \/ BackendBody(t)
    \/ BackendFinally(t)
    \/ RenderMapfileReturn(t)
    \/ RenderExit(t)
    \/ GetMapReturn(t)
    \/ NextCall(t)

RenderNext == \E t \in Threads : ThreadStep(t)

\* ------------------------------------------------------------------------
\* KMLServer: grids and layers
\* ------------------------------------------------------------------------
\* Coordinates of EPSG:900913 are integers in units of 0.025 m, those of
\* EPSG:4326 are degrees; geographic results are in units of 0.00001 degree.

\* 20037508.342789244 (kml.py:154, 156), in units of 0.025 m
MercMax == 801500334
\* the tolerance 0.1 (kml.py:154, 156), in units of 0.025 m
Tol == 4
\* 90.0 (kml.py:155, 157), in units of 0.00001 degree
Lat90 == 9000000

NoneBox == <<>>
NoCoord == <<>>

\* a square or rectangular tile pyramid: origin, extent, tile width per level
MercGrid(d) ==
    [srs |-> "EPSG:900913",
     ox |-> -(MercMax - d), oy |-> -(MercMax - d),
     ex |-> 2 * (MercMax - d), ey |-> 2 * (MercMax - d),
     widths |-> <<2 * (MercMax - d), MercMax - d, (MercMax - d) \div 2>>]

GeoGrid ==
    [srs |-> "EPSG:4326", ox |-> -180, oy |-> -90, ex |-> 360, ey |-> 180,
     widths |-> <<360, 180, 90>>]

\* a grid with custom resolutions: the tiles of a level do not nest in those
\* of the level above
CustomGrid ==
    [srs |-> "EPSG:4326", ox |-> 0, oy |-> 0, ex |-> 12, ey |-> 12,
     widths |-> <<6, 4, 3>>]

\* self.layers: the names and the grid of each layer
LayerKeys == {"osm", "sat_EPSG900913", "edge", "geo_EPSG4326", "custom"}

GridOf(key) ==
    CASE key = "osm" -> MercGrid(0)
      [] key = "sat_EPSG900913" -> MercGrid(2)
      [] key = "edge" -> MercGrid(4)
      [] key = "geo_EPSG4326" -> GeoGrid
      [] OTHER -> CustomGrid

\* layer.name: the name of the layer without the suffix of its grid
LayerName(key) ==
    CASE key = "sat_EPSG900913" -> "sat"
      [] key = "geo_EPSG4326" -> "geo"
      [] OTHER -> key

LayerNames == {LayerName(key) : key \in LayerKeys}

\* layer names a request may carry
RequestLayers == {"osm", "sat", "sat_EPSG900913", "edge", "geo", "custom", "nolayer"}

Abs(n) == IF n < 0 THEN -n ELSE n
CeilDiv(a, b) == (a \div b) + (IF a % b = 0 THEN 0 ELSE 1)

NumLevels(grid) == Len(grid.widths)
GridSize(grid, z) ==
    <<CeilDiv(grid.ex, grid.widths[z + 1]), CeilDiv(grid.ey, grid.widths[z + 1])>>

\* grid.internal_tile_coord(tile_coord, use_profiles=False): None for a tile
\* outside the levels or outside the cells of its level
InternalTileCoord(coord, grid) ==
    IF coord[3] < 0 \/ coord[3] >= NumLevels(grid)
       THEN NoCoord
       ELSE IF \/ coord[1] < 0
               \/ coord[2] < 0
               \/ coord[1] >= GridSize(grid, coord[3])[1]
               \/ coord[2] >= GridSize(grid, coord[3])[2]
               THEN NoCoord
               ELSE coord

\* grid.tile_bbox(tile_coord)
GridTileBbox(coord, grid) ==
    LET w == grid.widths[coord[3] + 1]
    IN  <<grid.ox + coord[1] * w, grid.oy + coord[2] * w,
          grid.ox + (coord[1] + 1) * w, grid.oy + (coord[2] + 1) * w>>

\* _tile_bbox, lines 138-142
TileBbox(tile_coord, grid) ==
    LET c == InternalTileCoord(tile_coord, grid)
    IN  IF c = NoCoord THEN NoneBox ELSE GridTileBbox(c, grid)

\* the inverse spherical Mercator projection, tabulated at the multiples of
\* MercMax/2 (0, 66.51326 and 85.05113 degrees of latitude; 0, 90 and 180
\* degrees of longitude), a coordinate taking the value of the nearest one
MercStep(v) == (Abs(v) + (MercMax \div 4)) \div (MercMax \div 2)
MercLat(y) ==
    LET lat == <<0, 6651326, 8505113>>[MercStep(y) + 1]
    IN  IF y < 0 THEN -lat ELSE lat
MercLon(x) ==
    LET lon == <<0, 9000000, 18000000>>[MercStep(x) + 1]
    IN  IF x < 0 THEN -lon ELSE lon

\* grid.srs.transform_bbox_to(SRS(4326), src_bbox, with_points=4)
TransformBboxTo4326(src_bbox, grid) ==
    IF grid.srs = "EPSG:900913"
       THEN <<MercLon(src_bbox[1]), MercLat(src_bbox[2]),
              MercLon(src_bbox[3]), MercLat(src_bbox[4])>>
       ELSE <<src_bbox[1] * 100000, src_bbox[2] * 100000,
              src_bbox[3] * 100000, src_bbox[4] * 100000>>

\* the clamp applied to both edges as soon as one is at the maximal extent
ClampPolesTogether(src_bbox, bbox, grid) ==
    IF /\ grid.srs = "EPSG:900913"
       /\ \/ Abs(src_bbox[2] - (-MercMax)) < Tol
          \/ Abs(src_bbox[4] - MercMax) < Tol
       THEN <<bbox[1], -Lat90, bbox[3], Lat90>>
       ELSE bbox

\* _tile_bbox_to_wgs, lines 152-158: the pole clamp
ClampPoles(src_bbox, bbox, grid) ==
    IF grid.srs = "EPSG:900913"
       THEN <<bbox[1],
              IF Abs(src_bbox[2] - (-MercMax)) < Tol THEN -Lat90 ELSE bbox[2],
              bbox[3],
              IF Abs(src_bbox[4] - MercMax) < Tol THEN Lat90 ELSE bbox[4]>>
       ELSE bbox

Ok(v) == [err |-> None, val |-> v]
Raise(e) == [err |-> e, val |-> <<>>]

\* _tile_bbox_to_wgs, lines 150-158; the transformation raises for the box
\* `bad`
TileBboxToWgs(src_bbox, grid, bad) ==
    IF src_bbox = bad
       THEN Raise("TransformError")
       ELSE Ok(ClampPoles(src_bbox, TransformBboxTo4326(src_bbox, grid), grid))

\* _tile_wgs_bbox, lines 144-148
TileWgsBbox(tile_coord, grid, bad) ==
    LET src_bbox == TileBbox(tile_coord, grid)
    IN  IF src_bbox = NoneBox THEN Ok(NoneBox) ELSE TileBboxToWgs(src_bbox, grid, bad)

\* grid.get_affected_level_tiles(bbox, level): the number of tiles in each
\* axis and the tiles of `level` whose boxes overlap the inside of bbox, row
\* by row from the top, None in place of a tile outside the grid; no tile
\* when the grid has no such level
AffectedRange(grid, bbox, level) ==
    LET w == grid.widths[level + 1]
    IN  [x0 |-> (bbox[1] + 1 - grid.ox) \div w,
         y0 |-> (bbox[2] + 1 - grid.oy) \div w,
         x1 |-> (bbox[3] - 1 - grid.ox) \div w,
         y1 |-> (bbox[4] - 1 - grid.oy) \div w]

AffectedLevelTiles(grid, bbox, level) ==
    IF level >= NumLevels(grid)
       THEN [size |-> <<0, 0>>, tiles |-> <<>>]
       ELSE LET r == AffectedRange(grid, bbox, level)
                nx == r.x1 - r.x0 + 1
                ny == r.y1 - r.y0 + 1
            IN  [size |-> <<nx, ny>>,
                 tiles |-> [i \in 1..(nx * ny) |->
                              InternalTileCoord(<<r.x0 + ((i - 1) % nx),
                                                  r.y1 - ((i - 1) \div nx),
                                                  level>>, grid)]]

\* every affected tile is kept
RetainAll(sub_bbox, bbox) == TRUE

\* _get_subtiles, line 132: only subtiles whose lower left corner is in bbox
Retain(sub_bbox, bbox) == sub_bbox[1] >= bbox[1] /\ sub_bbox[2] >= bbox[2]

\* _get_subtiles, lines 126-134: the loop over the affected tiles, from the
\* i-th on, with the subtiles found so far
RECURSIVE SubtilesFrom(_, _, _, _, _, _)
SubtilesFrom(tiles, i, subtiles, bbox, grid, bad) ==
    IF i > Len(tiles)
       THEN Ok(subtiles)
       ELSE LET coord == tiles[i]
                sub_bbox == IF coord = NoCoord THEN NoneBox ELSE TileBbox(coord, grid)
            IN  IF coord = NoCoord \/ sub_bbox = NoneBox
                   THEN SubtilesFrom(tiles, i + 1, subtiles, bbox, grid, bad)
                   ELSE IF Retain(sub_bbox, bbox)
                           THEN LET wgs == TileBboxToWgs(sub_bbox, grid, bad)
                                IN  IF wgs.err # None
                                       THEN Raise(wgs.err)
                                       ELSE SubtilesFrom(tiles, i + 1,
                                              Append(subtiles, [coord |-> coord, bbox |-> wgs.val]),
                                              bbox, grid, bad)
                           ELSE SubtilesFrom(tiles, i + 1, subtiles, bbox, grid, bad)

\* the loop with a subtile whose transformation fails left out
RECURSIVE SubtilesSkipping(_, _, _, _, _, _)
SubtilesSkipping(tiles, i, subtiles, bbox, grid, bad) ==
    IF i > Len(tiles)
       THEN Ok(subtiles)
       ELSE LET coord == tiles[i]
                sub_bbox == IF coord = NoCoord THEN NoneBox ELSE TileBbox(coord, grid)
            IN  IF coord = NoCoord \/ sub_bbox = NoneBox \/ sub_bbox = bad
                   THEN SubtilesSkipping(tiles, i + 1, subtiles, bbox, grid, bad)
                   ELSE IF Retain(sub_bbox, bbox)
                           THEN SubtilesSkipping(tiles, i + 1,
                                  Append(subtiles,
                                         [coord |-> coord,
                                          bbox |-> TileBboxToWgs(sub_bbox, grid, bad).val]),
                                  bbox, grid, bad)
                           ELSE SubtilesSkipping(tiles, i + 1, subtiles, bbox, grid, bad)

GetSubtilesSkipping(tile, grid, bad) ==
    LET bbox == TileBbox(tile, grid)
    IN  IF bbox = NoneBox
           THEN [err |-> "TypeError", val |-> <<>>, size |-> <<0, 0>>]
           ELSE LET affected == AffectedLevelTiles(grid, bbox, tile[3] + 1)
                    r == SubtilesSkipping(affected.tiles, 1, <<>>, bbox, grid, bad)
                IN  [err |-> r.err, val |-> r.val, size |-> affected.size]

\* _get_subtiles, lines 119-136; indexing the bbox None of a tile outside
\* the grid is a TypeError
GetSubtiles(tile, grid, bad) ==
    LET bbox == TileBbox(tile, grid)
    IN  IF bbox = NoneBox
           THEN [err |-> "TypeError", val |-> <<>>, size |-> <<0, 0>>]
           ELSE LET affected == AffectedLevelTiles(grid, bbox, tile[3] + 1)
                    r == SubtilesFrom(affected.tiles, 1, <<>>, bbox, grid, bad)
                IN  [err |-> r.err, val |-> r.val, size |-> affected.size]

Coords(subtiles) == {subtiles[i].coord : i \in 1..Len(subtiles)}

\* ------------------------------------------------------------------------
\* KMLServer: requests
\* ------------------------------------------------------------------------
TileCoords == (-1..MaxXY) \X (-1..MaxXY) \X (0..MaxZ)

\* env['mapproxy.authorize'], when present, answers {authorized, layers};
\* layers holds at most one layer name `key`, with its tile flag or without
AuthEnvs ==
    {[present |-> FALSE, authorized |-> "none", key |-> None, tile |-> "absent"]}
    \cup {[present |-> TRUE, authorized |-> a, key |-> None, tile |-> "absent"] :
            a \in {"full", "none"}}
    \cup {[present |-> TRUE, authorized |-> "partial", key |-> k, tile |-> f] :
            k \in LayerNames \cup {None}, f \in {"true", "false", "absent"}}

NoEnv == [present |-> FALSE, authorized |-> "none", key |-> None, tile |-> "absent"]
NoReq == [handler |-> None, layer |-> None, tile |-> <<0, 0, 0>>, env |-> NoEnv,
          bad |-> NoneBox]
NoResp == [kind |-> None, status |-> None, msg |-> None, bbox |-> NoneBox,
           subtiles |-> <<>>, subtile_grid |-> <<0, 0>>, initial_level |-> FALSE,
           reached |-> {}]

RequestError(msg, status, reached) ==
    [kind |-> "RequestError", status |-> status, msg |-> msg, bbox |-> NoneBox,
     subtiles |-> <<>>, subtile_grid |-> <<0, 0>>, initial_level |-> FALSE,
     reached |-> reached]

Uncaught(err, reached) ==
    [kind |-> err, status |-> "500", msg |-> None, bbox |-> NoneBox,
     subtiles |-> <<>>, subtile_grid |-> <<0, 0>>, initial_level |-> FALSE,
     reached |-> reached]

\* layer, lines 78-85: the key of the layer in self.layers, or None
Layer(name) ==
    IF name \in LayerKeys THEN name
    ELSE IF (name \o "_EPSG4326") \in LayerKeys THEN name \o "_EPSG4326"
    ELSE IF (name \o "_EPSG900913") \in LayerKeys THEN name \o "_EPSG900913"
    ELSE None

\* a partial result lets every layer through
AuthorizedAnyPartial(layer_name, env) ==
    \/ ~env.present
    \/ env.authorized = "full"
    \/ env.authorized = "partial"

\* authorize_tile_layer, lines 68-76: TRUE when it returns, FALSE when it
\* raises RequestError('forbidden', status=403)
Authorized(layer_name, env) ==
    \/ ~env.present
    \/ env.authorized = "full"
    \/ /\ env.authorized = "partial"
       /\ env.key = layer_name
       /\ env.tile = "true"

\* map, lines 54-66
MapResponse(req) ==
    LET layer == Layer(req.layer)
    IN  IF layer = None
           THEN RequestError("unknown layer", "default", {})
        ELSE IF ~Authorized(LayerName(layer), req.env)
           THEN RequestError("forbidden", "403", {})
        ELSE [kind |-> "tile", status |-> "200", msg |-> None, bbox |-> NoneBox,
              subtiles |-> <<>>, subtile_grid |-> <<0, 0>>,
              initial_level |-> FALSE, reached |-> {"render"}]

\* kml without the test of the tile's bbox
KmlResponseUnchecked(req) ==
    LET layer == Layer(req.layer)
    IN  IF layer = None
           THEN RequestError("unknown layer", "default", {})
        ELSE IF ~Authorized(LayerName(layer), req.env)
           THEN RequestError("forbidden", "403", {})
        ELSE LET grid == GridOf(layer)
                 bbox == TileWgsBbox(req.tile, grid, req.bad)
                 sub == GetSubtiles(req.tile, grid, req.bad)
             IN  IF bbox.err # None
                    THEN Uncaught(bbox.err, {})
                 ELSE IF sub.err # None
                    THEN Uncaught(sub.err, {"subdivide"})
                 ELSE [kind |-> "kml", status |-> "200", msg |-> None,
                       bbox |-> bbox.val, subtiles |-> sub.val,
                       subtile_grid |-> sub.size,
                       initial_level |-> (req.tile[3] = 0),
                       reached |-> {"subdivide"}]

\* kml, lines 87-117
KmlResponse(req) ==
    LET layer == Layer(req.layer)
    IN  IF layer = None
           THEN RequestError("unknown layer", "default", {})
        ELSE IF ~Authorized(LayerName(layer), req.env)
           THEN RequestError("forbidden", "403", {})
        ELSE LET grid == GridOf(layer)
                 bbox == TileWgsBbox(req.tile, grid, req.bad)
             IN  IF bbox.err # None
                    THEN Uncaught(bbox.err, {})
                 ELSE IF bbox.val = NoneBox
                    THEN RequestError("outside", "default", {})
                 ELSE LET sub == GetSubtiles(req.tile, grid, req.bad)
                      IN  IF sub.err # None
                             THEN Uncaught(sub.err, {"subdivide"})
                             ELSE [kind |-> "kml", status |-> "200", msg |-> None,
                                   bbox |-> bbox.val, subtiles |-> sub.val,
                                   subtile_grid |-> sub.size,
                                   initial_level |-> (req.tile[3] = 0),
                                   reached |-> {"subdivide"}]

\* the boxes whose transformation may fail during a kml request: none, the
\* tile's own or the one of a tile of the next level
FaultBoxes(name, tile) ==
    LET layer == Layer(name)
        bbox == IF layer = None THEN NoneBox ELSE TileBbox(tile, GridOf(layer))
    IN  IF bbox = NoneBox
           THEN {NoneBox}
           ELSE LET tiles == AffectedLevelTiles(GridOf(layer), bbox, tile[3] + 1).tiles
                IN  {NoneBox, bbox}
                    \cup {TileBbox(tiles[i], GridOf(layer)) :
                            i \in {j \in 1..Len(tiles) : tiles[j] # NoCoord}}

KmlInit ==
    /\ kpc = "idle"
    /\ kreq = NoReq
    /\ kresp = NoResp

\* a tile request arrives: KMLServer.map
Map ==
    /\ kpc = "idle"
    /\ \E name \in RequestLayers, tile \in TileCoords, env \in AuthEnvs :
        LET req == [handler |-> "map", layer |-> name, tile |-> tile,
                    env |-> env, bad |-> NoneBox]
        IN  /\ kreq' = req
            /\ kresp' = MapResponse(req)
    /\ kpc' = "responded"
    /\ UNCHANGED <<renderVars, docVars>>

\* a KML request arrives: KMLServer.kml
Kml ==
    /\ kpc = "idle"
    /\ \E name \in RequestLayers, tile \in TileCoords, env \in AuthEnvs :
        \E bad \in FaultBoxes(name, tile) :
            LET req == [handler |-> "kml", layer |-> name, tile |-> tile,
                        env |-> env, bad |-> bad]
            IN  /\ kreq' = req
                /\ kresp' = KmlResponse(req)
    /\ kpc' = "responded"
    /\ UNCHANGED <<renderVars, docVars>>

\* the response is sent and what the request created is discarded
Discard ==
    /\ kpc = "responded"
    /\ kpc' = "idle"
    /\ kreq' = NoReq
    /\ kresp' = NoResp
    /\ UNCHANGED <<renderVars, docVars>>

KmlNext ==
    \/ Map
    \/ Kml
    \/ Discard

\* ------------------------------------------------------------------------
\* KMLServer: the KML documents of one layer
\* ------------------------------------------------------------------------
DocsInit ==
    /\ dlayer \in LayerKeys
    /\ docs = {}

\* _get_subtiles for a tile of the layer's grid (kml, lines 100-106, calls
\* it for such tiles only): the document of `tile` links the subtiles
Subdivide ==
    /\ Cardinality(docs) < MaxDocs
    /\ \E tile \in TileCoords :
        /\ TileBbox(tile, GridOf(dlayer)) # NoneBox
        /\ docs' = docs \cup
              {[parent |-> tile,
                children |-> Coords(GetSubtiles(tile, GridOf(dlayer), NoneBox).val)]}
    /\ UNCHANGED <<dlayer, renderVars, kmlVars>>

\* a document is dropped
Forget ==
    /\ \E d \in docs : docs' = docs \ {d}
    /\ UNCHANGED <<dlayer, renderVars, kmlVars>>

DocsNext ==
    \/ Subdivide
    \/ Forget

\* ------------------------------------------------------------------------
\* Claims about MapnikSource
\* ------------------------------------------------------------------------
InBackend(t) == worker[t] \in {"running", "finally"}
CallEnded(t) == pc[t] \in {"idle", "get_map_return", "done"}

\* C1: with a lock configured, at most one call is inside _render_mapfile at
\* any time: the counter of backend invocations in progress never exceeds 1.
C1_MutualExclusion ==
    hasLock => /\ active <= 1
               /\ Cardinality({t \in Threads : InBackend(t)}) <= 1

\* a call is in the backend while another one has reached the lock
C1_Witness ==
    /\ hasLock
    /\ active = 1
    /\ \E t, u \in Threads : t # u /\ InBackend(t) /\ pc[u] = "render"

\* C2: with a lock configured, a call holds the lock while the backend runs
\* and no longer holds it once it has left render, after a return and after
\* a backend fault alike; when every call has ended the lock is free.
C2_LockReleased ==
    hasLock =>
        /\ \A t \in Threads :
            /\ worker[t] \in {"submitted", "running", "finally"} => lockHolder = t
            /\ CallEnded(t) => lockHolder # t
        /\ (\A t \in Threads : CallEnded(t)) => lockHolder = 0

\* a call ended by a backend fault, and the lock taken again by a later call
C2_Witness ==
    /\ hasLock
    /\ \E t, u \in Threads :
        /\ t # u
        /\ pc[t] = "done"
        /\ result[t].kind = "SourceError"
        /\ lockHolder = u
        /\ InBackend(u)

\* C3: a query the configured resolution range does not contain gets
\* BlankImage, and for it the backend is never invoked and no lock is taken.
C3_OutOfRange ==
    \A t \in Threads :
        (hasResRange /\ pc[t] # "idle" /\ ~query[t].in_res_range) =>
            /\ pc[t] = "done"
            /\ result[t] = BlankImage
            /\ calls[t] = 0
            /\ worker[t] = "none"
            /\ log[t] = <<>>
            /\ lockHolder # t

\* an out-of-range query was answered while a lock is configured
C3_Witness ==
    /\ hasLock
    /\ hasResRange
    /\ \E t \in Threads :
        /\ pc[t] = "done"
        /\ ~query[t].in_res_range
        /\ result[t] = BlankImage

\* C4: a backend RuntimeError with message m reaches the caller of get_map
\* as a SourceError with message m, and when the fault leaves
\* _render_mapfile it has been logged exactly once, with a duration, the
\* failure status and no size.
C4_FaultSurfaced ==
    \A t \in Threads :
        (pending[t].kind = "RuntimeError" /\ worker[t] = "finished") =>
            /\ Len(log[t]) = 1
            /\ log[t][1].duration \in Durations
            /\ log[t][1].status = "500"
            /\ log[t][1].size = None
            /\ pc[t] = "done" => result[t] = SourceError(pending[t].msg)

\* get_map has raised SourceError("font not found")
C4_Witness ==
    \E t \in Threads :
        /\ pc[t] = "done"
        /\ pending[t] = RuntimeError("font not found")
        /\ result[t] = SourceError("font not found")
        /\ Len(log[t]) = 1

\* C9 as stated: a call has left render_mapfile only when its backend
\* invocation has finished, and while a call waits for the backend every
\* other request that has not ended can take a step.
C9_NoOtherBlocked ==
    /\ \A t \in Threads :
        pc[t] \in {"render_exit", "get_map_return"} => worker[t] = "finished"
    /\ \A t, u \in Threads :
        (t # u /\ pc[t] = "waiting" /\ worker[t] # "finished") =>
            ENABLED ThreadStep(u)

\* C9 amended: a call has left render_mapfile only when its backend
\* invocation has finished, and while a call waits for the backend another
\* request can take a step unless it is waiting for the configured lock.
C9_Synchronous ==
    /\ \A t \in Threads :
        /\ pc[t] \in {"render_exit", "get_map_return"} => worker[t] = "finished"
        /\ pc[t] = "done" =>
              \/ worker[t] = "finished"
              \/ worker[t] = "none" /\ result[t] = BlankImage
    /\ \A t, u \in Threads :
        (t # u /\ pc[t] = "waiting" /\ worker[t] # "finished") =>
            \/ ENABLED ThreadStep(u)
            \/ hasLock /\ pc[u] = "render" /\ lockHolder = t

\* without a lock two calls wait for their backends at the same time, and
\* with one a call waits for the lock the rendering call holds
C9_Witness ==
    \E t, u \in Threads :
        /\ t # u
        /\ pc[t] = "waiting"
        /\ InBackend(t)
        /\ \/ ~hasLock /\ pc[u] = "waiting" /\ InBackend(u)
           \/ hasLock /\ pc[u] = "render"

\* ------------------------------------------------------------------------
\* Claims about KMLServer
\* ------------------------------------------------------------------------
Handled(handler) == kpc = "responded" /\ kreq.handler = handler /\ Layer(kreq.layer) # None
ReqGrid == GridOf(Layer(kreq.layer))
ReqBbox == TileBbox(kreq.tile, ReqGrid)

\* the tiles of the level below `tile` whose lower left corner lies in the
\* box of `tile`
ChildrenIn(tile, grid) ==
    IF tile[3] + 1 >= NumLevels(grid) THEN {}
    ELSE LET size == GridSize(grid, tile[3] + 1)
             bbox == TileBbox(tile, grid)
         IN  {c \in (0..(size[1] - 1)) \X (0..(size[2] - 1)) \X {tile[3] + 1} :
                LET b == TileBbox(c, grid)
                IN  /\ bbox[1] <= b[1] /\ b[1] < bbox[3]
                    /\ bbox[2] <= b[2] /\ b[2] < bbox[4]}

\* C5: two different tiles of one level of a grid never link the same
\* subtile, and the lower left corner of every subtile a tile links lies in
\* the box of the tile.
C5_ChildrenDisjoint ==
    /\ \A d \in docs : d.children \subseteq ChildrenIn(d.parent, GridOf(dlayer))
    /\ \A d1, d2 \in docs :
        (d1.parent # d2.parent /\ d1.parent[3] = d2.parent[3]) =>
            d1.children \cap d2.children = {}

\* the documents of two neighbours in a grid whose levels do not nest: a
\* tile of the next level overlaps both and only one links it
C5_Witness ==
    /\ dlayer = "custom"
    /\ \E d1, d2 \in docs :
        /\ d1.parent = <<0, 0, 0>>
        /\ d2.parent = <<1, 0, 0>>
        /\ <<1, 0, 1>> \in d1.children
        /\ d2.children # {}

\* what the authorization collaborator allows for the layer of the request
Allowed ==
    \/ kreq.env.authorized = "full"
    \/ /\ kreq.env.authorized = "partial"
       /\ kreq.env.key = LayerName(Layer(kreq.layer))
       /\ kreq.env.tile = "true"

\* C6: with an authorization collaborator present a tile or KML request gets
\* past the authorization exactly when the result is "full", or "partial"
\* with the tile flag of the layer true; otherwise it fails with status 403
\* and neither the rendering nor the subdivision is reached.
C6_Authorization ==
    \A h \in {"map", "kml"} :
        (Handled(h) /\ kreq.env.present) =>
            /\ Allowed <=> kresp.msg # "forbidden"
            /\ (Allowed /\ h = "map") => "render" \in kresp.reached
            /\ (Allowed /\ h = "kml" /\ ReqBbox # NoneBox /\ kreq.bad = NoneBox) =>
                  "subdivide" \in kresp.reached
            /\ ~Allowed => /\ kresp.kind = "RequestError"
                           /\ kresp.status = "403"
                           /\ kresp.reached = {}
                           /\ kresp.subtiles = <<>>

\* a partial result without the flag of the layer was refused
C6_Witness ==
    /\ Handled("kml")
    /\ kreq.env.present
    /\ kreq.env.authorized = "partial"
    /\ kreq.env.tile = "true"
    /\ kreq.env.key # LayerName(Layer(kreq.layer))
    /\ ReqBbox # NoneBox
    /\ kresp.status = "403"

OutsideRequest ==
    /\ Handled("kml")
    /\ ~kreq.env.present \/ Allowed
    /\ ReqBbox = NoneBox

\* C7 as stated: for a tile that maps to no cell of the grid the
\* subdivision gives an empty result, without an error.
C7_OutsideEmpty ==
    OutsideRequest => kresp.kind = "kml" /\ kresp.subtiles = <<>>

\* C7 amended: a KML request for a tile that maps to no cell of the grid is
\* refused with a RequestError before the subdivision is reached, and links
\* no subtile.
C7_OutsideRejected ==
    OutsideRequest =>
        /\ kresp.kind = "RequestError"
        /\ kresp.msg = "outside"
        /\ kresp.reached = {}
        /\ kresp.subtiles = <<>>

\* a KML request for a tile left of the grid was handled
C7_Witness ==
    /\ OutsideRequest
    /\ kreq.tile[1] = -1
    /\ kresp.kind = "RequestError"

\* the geographic box of a source box, as the claim states it
Clamped(src_bbox, grid) ==
    LET raw == TransformBboxTo4326(src_bbox, grid)
        web == grid.srs = "EPSG:900913"
    IN  <<raw[1],
          IF web /\ Abs(src_bbox[2] + MercMax) < Tol THEN -Lat90 ELSE raw[2],
          raw[3],
          IF web /\ Abs(src_bbox[4] - MercMax) < Tol THEN Lat90 ELSE raw[4]>>

\* C8: in a KML response the box of the tile and of every subtile has the
\* minimal latitude -90.0 when the grid is in EPSG:900913 and the bottom of
\* its source box is within 0.1 of -20037508.342789244, the maximal latitude
\* 90.0 when the top is within 0.1 of 20037508.342789244, each edge for
\* itself, and the projected values everywhere else.
C8_PoleClamp ==
    (Handled("kml") /\ kresp.kind = "kml") =>
        /\ kresp.bbox = Clamped(ReqBbox, ReqGrid)
        /\ \A i \in 1..Len(kresp.subtiles) :
            kresp.subtiles[i].bbox =
                Clamped(TileBbox(kresp.subtiles[i].coord, ReqGrid), ReqGrid)

\* a tile whose bottom edge is within 0.1 of the extent, not on it, and
\* whose top edge is far from it: only the minimal latitude is clamped
C8_Witness ==
    /\ Handled("kml")
    /\ kresp.kind = "kml"
    /\ ReqGrid.srs = "EPSG:900913"
    /\ ReqBbox[2] # -MercMax
    /\ kresp.bbox[2] = -Lat90
    /\ kresp.bbox[4] # Lat90
    /\ TransformBboxTo4326(ReqBbox, ReqGrid)[2] # -Lat90

\* the subtiles the request links when no transformation fails
Unfailing == GetSubtiles(kreq.tile, ReqGrid, NoneBox).val

\* the transformation fails for a subtile the tile would link
ChildFault ==
    /\ Handled("kml")
    /\ ~kreq.env.present \/ Allowed
    /\ ReqBbox # NoneBox
    /\ \E i \in 1..Len(Unfailing) :
        TileBbox(Unfailing[i].coord, ReqGrid) = kreq.bad

\* C10 as stated: an error in the transformation of one subtile drops that
\* subtile only; the others are returned and the subdivision does not fail.
C10_ChildDropped ==
    ChildFault =>
        /\ kresp.kind = "kml"
        /\ Coords(kresp.subtiles) =
              {c \in Coords(Unfailing) : TileBbox(c, ReqGrid) # kreq.bad}

\* C10 amended: an affected tile that maps to no cell of the grid is left
\* out and the other subtiles are returned; an error in the transformation
\* of one subtile ends the whole subdivision, which returns no subtile.
C10_FaultPropagates ==
    /\ ChildFault =>
        /\ kresp.kind = "TransformError"
        /\ kresp.subtiles = <<>>
        /\ kresp.reached = {"subdivide"}
    /\ (Handled("kml") /\ kresp.kind = "kml") =>
        Coords(kresp.subtiles) = ChildrenIn(kreq.tile, ReqGrid)

\* the transformation failed for the last of four subtiles
C10_Witness ==
    /\ ChildFault
    /\ Len(Unfailing) = 4
    /\ TileBbox(Unfailing[4].coord, ReqGrid) = kreq.bad
    /\ kresp.kind = "TransformError"

\* ------------------------------------------------------------------------
\* Specifications
\* ------------------------------------------------------------------------
KmlRest == kpc = "idle" /\ kreq = NoReq /\ kresp = NoResp
DocsRest == dlayer = "osm" /\ docs = {}
RenderRest ==
    /\ hasLock = FALSE
    /\ hasResRange = FALSE
    /\ hasCoverage = FALSE
    /\ lockHolder = 0
    /\ pc = [t \in Threads |-> "idle"]
    /\ query = [t \in Threads |-> NoQuery]
    /\ worker = [t \in Threads |-> "none"]
    /\ pending = [t \in Threads |-> NoPending]
    /\ log = [t \in Threads |-> <<>>]
    /\ result = [t \in Threads |-> NoResult]
    /\ active = 0
    /\ calls = [t \in Threads |-> 0]

\* concurrent get_map calls on one MapnikSource
Init == RenderInit /\ KmlRest /\ DocsRest
Next == RenderNext
Spec == Init /\ [][Next]_vars

\* requests to one KMLServer
InitKml == KmlInit /\ RenderRest /\ DocsRest
NextKml == KmlNext
SpecKml == InitKml /\ [][NextKml]_vars

\* the KML documents of one layer
InitDocs == DocsInit /\ RenderRest /\ KmlRest
NextDocs == DocsNext
SpecDocs == InitDocs /\ [][NextDocs]_vars
====
